---- MODULE Spec2Model ----
(***************************************************************************)
(* SoloMan: the chat / image request dispatcher and its persistence.       *)
(*                                                                         *)
(* Two deployments of the same application live in the repository:         *)
(*   "ungated": the client of src/unnamed/part_000 talking to the routes   *)
(*              of src/server.ts (the server calls the provider);          *)
(*   "gated":   the client of src/unnamed/part_001, which calls the        *)
(*              provider itself and persists turns through the license-    *)
(*              gated routes GET/DELETE /api/chat and POST /api/chat/save. *)
(*              Those gated routes are not part of src/; they are modelled *)
(*              from spec.md sections 4.1 and 6.                           *)
(*                                                                         *)
(* Text is a sequence of one-character strings, so that toLowerCase,       *)
(* includes, replace and trim are computed character by character.         *)
(***************************************************************************)
EXTENDS Integers, Sequences, FiniteSets, TLC

VARIABLES
    variant,                \* "ungated" | "gated": which deployment runs
    GEMINI_API_KEY,         \* TRUE iff process.env.GEMINI_API_KEY is set
    chat_history,           \* table chat_history, rows in insertion (id) order
    sameSecond,             \* the indexes of the chat_history rows whose timestamp
                            \* (CURRENT_TIMESTAMP, one second) equals the row before's
    requests,               \* per caller, its POST /api/chat request on the server
    gallery,                \* table gallery, rows in insertion (id) order
    tasks,                  \* table tasks, rows in insertion (id) order
    sqlite_sequence,        \* AUTOINCREMENT: the largest id given, per table
    http,                   \* the last HTTP exchange served by the server
    provider,               \* the last generateContent call and its outcome
    chat,                   \* client state: the displayed chat
    isTyping,               \* client state
    aiStatus,               \* client state: "online" | "busy" | "offline"
    stars,                  \* client state: the star total
    tasksState,             \* client state: the missions (tasks, setTasks)
    licenseKey,             \* client state (gated client only)
    selectedImageForEdit,   \* client state: NULL or a gallery image url
    dailyChallenge,         \* client state: [points, completed]
    lastAlert,              \* the text of the last window.alert, or NULL
    pc,                     \* position of the client's sendMessage
    local                   \* the locals of the running / last sendMessage

vars == <<variant, GEMINI_API_KEY, chat_history, sameSecond, requests, gallery, tasks,
          sqlite_sequence,
          http, provider, chat, isTyping, aiStatus, stars, tasksState, licenseKey,
          selectedImageForEdit, dailyChallenge, lastAlert, pc, local>>

\* null / undefined of a value that is text, rows or an image url
NULL == <<"null">>
\* null of a value that is a plain string
NONE == "none"
undefined == <<"undefined">>

(***************************************************************************)
(* Bounds                                                                  *)
(***************************************************************************)
\* longest displayed chat / stored history for which a new message is accepted
MaxTurns == 3
\* number of pieces a typed text is concatenated from (classification runs)
MaxPieces == 2
\* most rows of the gallery table for which an upload is accepted
MaxGallery == 1
\* largest mission id the tasks table gives out
MaxTaskId == 6
\* largest image id the gallery table gives out to an upload
MaxGalleryId == 3
\* number of callers that post to /api/chat at the same time
MaxCallers == 2

(***************************************************************************)
(* Strings                                                                 *)
(***************************************************************************)
lowerChar(c) ==
    CASE c = "S" -> "s"
      [] c = "M" -> "m"
      [] c = "P" -> "p"
      [] c = "A" -> "a"
      [] OTHER -> c

toLowerCase(s) == [i \in 1..Len(s) |-> lowerChar(s[i])]

\* s has p at index i (1-based)
matchesAt(s, i, p) ==
    /\ i + Len(p) - 1 <= Len(s)
    /\ \A k \in 1..Len(p) : s[i + k - 1] = p[k]

includes(s, p) == \E i \in 1..(Len(s) - Len(p) + 1) : matchesAt(s, i, p)

isSpace(c) == c = " "

RECURSIVE trimStart(_)
trimStart(s) ==
    IF s # <<>> /\ isSpace(Head(s)) THEN trimStart(Tail(s)) ELSE s

RECURSIVE trimEnd(_)
trimEnd(s) ==
    IF s # <<>> /\ isSpace(s[Len(s)]) THEN trimEnd(SubSeq(s, 1, Len(s) - 1)) ELSE s

\* String.prototype.trim (the text is evaluated once, then trimmed)
trim(s) == CHOOSE t \in {trimEnd(trimStart(v)) : v \in {s}} : TRUE

\* The alternatives of a regular expression alt1|alt2|..., in order, that
\* match s at i ignoring case (flag i).
altsAt(s, i, alts) ==
    { k \in 1..Len(alts) : matchesAt(toLowerCase(s), i, alts[k]) }

firstAlt(s, i, alts) ==
    CHOOSE k \in altsAt(s, i, alts) : \A j \in altsAt(s, i, alts) : k <= j

\* s.replace(/alt1|alt2|.../gi, ''): scan left to right; at each index the
\* first alternative that matches is removed and the scan resumes after it.
replaceAllFrom(s, i, alts) ==
    LET rest[k \in 1..(Len(s) + 1)] ==
            IF k > Len(s) THEN <<>>
            ELSE IF altsAt(s, k, alts) # {}
                 THEN rest[k + Len(alts[firstAlt(s, k, alts)])]
                 ELSE <<s[k]>> \o rest[k + 1]
    IN rest[i]

replaceAll(s, alts) == replaceAllFrom(s, 1, alts)

(***************************************************************************)
(* The trigger phrases                                                     *)
(***************************************************************************)
SHOW_ME  == <<"s","h","o","w"," ","m","e">>
BRING_ME == <<"b","r","i","n","g"," ","m","e">>
PIC_OF   == <<"p","i","c"," ","o","f">>
A_PIC_OF == <<"a"," ","p","i","c"," ","o","f">>
AN_PIC_OF == <<"a","n"," ","p","i","c"," ","o","f">>
ADD      == <<"a","d","d">>
REMOVE   == <<"r","e","m","o","v","e">>
CHANGE   == <<"c","h","a","n","g","e">>
EDIT     == <<"e","d","i","t">>
MAKE_IT  == <<"m","a","k","e"," ","i","t">>
SPACE_PIZZA == <<"s","p","a","c","e"," ","p","i","z","z","a">>

\* /show me|bring me|pic of|a pic of/gi
stripRegexUngated == <<SHOW_ME, BRING_ME, PIC_OF, A_PIC_OF>>
\* /show me|bring me|pic of|a pic of|an pic of/gi
stripRegexGated == <<SHOW_ME, BRING_ME, PIC_OF, A_PIC_OF, AN_PIC_OF>>

stripRegex(v) == IF v = "gated" THEN stripRegexGated ELSE stripRegexUngated

(***************************************************************************)
(* Classification, as sendMessage computes it                              *)
(***************************************************************************)
isImageRequest(lowerMsg) ==
    includes(lowerMsg, SHOW_ME) \/ includes(lowerMsg, BRING_ME) \/ includes(lowerMsg, PIC_OF)

hasEditWord(lowerMsg) ==
    \/ includes(lowerMsg, ADD)
    \/ includes(lowerMsg, REMOVE)
    \/ includes(lowerMsg, CHANGE)
    \/ includes(lowerMsg, EDIT)
    \/ includes(lowerMsg, MAKE_IT)

isEditRequest(sel, lowerMsg) == sel # NULL /\ hasEditWord(lowerMsg)

branchOf_generateFirst(isEdit, isImage, sel) ==
    IF isImage THEN "generate"
    ELSE IF isEdit /\ sel # NULL THEN "edit"
    ELSE "chat"

branchOf_noGenerate(isEdit, isImage, sel) ==
    IF isEdit /\ sel # NULL THEN "edit" ELSE "chat"

\* if (isEditRequest && selectedImageForEdit) ... else if (isImageRequest) ... else
branchOf(isEdit, isImage, sel) ==
    IF isEdit /\ sel # NULL THEN "edit"
    ELSE IF isImage THEN "generate"
    ELSE "chat"

imagePrompt_firstOnly(v, msg) ==
    LET hits == { i \in 1..Len(msg) : altsAt(msg, i, stripRegex(v)) # {} }
    IN IF hits = {} THEN trim(msg)
       ELSE LET i == CHOOSE x \in hits : \A y \in hits : x <= y
                n == Len(stripRegex(v)[firstAlt(msg, i, stripRegex(v))])
            IN trim(SubSeq(msg, 1, i - 1) \o SubSeq(msg, i + n, Len(msg)))

\* message.replace(/.../gi, '').trim()
imagePrompt(v, msg) == trim(replaceAll(msg, stripRegex(v)))

(***************************************************************************)
(* Fixed texts (one chunk each) and values                                 *)
(***************************************************************************)
WELCOME == <<"Hi there! I'm SoloMan, your AI best friend!">>
FALLBACK == <<"Oops! My super-brain had a little hiccup.">>
FORBIDDEN_DEFAULT == <<"SoloMan is sleeping! Please provide a valid license key.">>
ALERT_NO_KEY == "SoloMan's brain is not connected! Please provide a valid license key."
AI_CONFIG_ERROR == <<"AI configuration error">>
DAILY_POINTS == 50
HISTORY_LIMIT == 6

\* license gate of the gated server: the preloaded allow-set and its reply
VALID_LICENSE_KEYS == {"GOOD-KEY"}
FORBIDDEN_ERROR == <<"SoloMan is sleeping! Give me a valid license key.">>
LicenseKeys == {"", "BAD-KEY", "GOOD-KEY"}

licenseOk(key) == key \in VALID_LICENSE_KEYS

hereIsThePic(v, prompt) ==
    IF v = "gated"
    THEN <<"Here is the pic of ">> \o prompt \o <<" you asked for! Isn't it cool?">>
    ELSE <<"Here is the picture of ">> \o prompt \o <<" you asked for! Isn't it cool?">>

editedThePic(v) ==
    IF v = "gated"
    THEN <<"I've edited the pic for you! How does it look?">>
    ELSE <<"I've edited the image for you! How does it look?">>

generatePromptText(prompt) ==
    <<"A vibrant, high-quality, futuristic and kid-friendly 3D illustration of: ">>
        \o prompt \o <<". No text in the image.">>

editPromptText(v, prompt) ==
    IF v = "gated"
    THEN <<"Apply this edit to the pic: ">> \o prompt \o <<". Keep it fun and kid-friendly!">>
    ELSE <<"Apply this edit to the image: ">> \o prompt \o <<". Keep it fun and kid-friendly!">>

(***************************************************************************)
(* Image urls: data:<mime>;base64,<data>                                   *)
(***************************************************************************)
Letters ==
    {"a","b","c","d","e","f","g","h","i","j","k","l","m","n","o","p","q","r","s",
     "t","u","v","w","x","y","z","A","M","P","S"}

IMAGE_PNG == <<"i","m","a","g","e","/","p","n","g">>
IMAGE_JP2 == <<"i","m","a","g","e","/","j","p","2">>

dataUrl(mime, data) == <<mime, data>>

\* url.match(/^data:([A-Za-z-+\/]+);base64,(.+)$/): <<mimeType, data>> or NULL
matchDataUrl(url) ==
    IF /\ url # NULL
       /\ url[1] # <<>>
       /\ \A i \in 1..Len(url[1]) : url[1][i] \in Letters \cup {"-", "+", "/"}
       /\ url[2] # ""
    THEN <<url[1], url[2]>>
    ELSE NULL

\* the files a user can pick in the upload dialog, as FileReader encodes them
Files == {dataUrl(IMAGE_PNG, "UE5H"), dataUrl(IMAGE_JP2, "SlAy")}

(***************************************************************************)
(* The provider (generateContent) and its outcomes                         *)
(***************************************************************************)
Pending == [kind |-> "pending", text |-> NULL, parts |-> <<>>]
ProviderError == [kind |-> "error", text |-> NULL, parts |-> <<>>]
textResponse(t) == [kind |-> "response", text |-> t, parts |-> <<>>]
partsResponse(ps) == [kind |-> "response", text |-> NULL, parts |-> ps]
textPart == [inlineData |-> NONE]
imagePart(d) == [inlineData |-> d]

ChatOutcomes ==
    {ProviderError, textResponse(<<" ","o","k"," ">>), textResponse(<<" ">>)}

ImageOutcomes ==
    {ProviderError, partsResponse(<<textPart>>), partsResponse(<<textPart, imagePart("R0VO")>>)}

\* response.text?.trim()
aiResponseOf(response) == IF response.text = NULL THEN <<>> ELSE trim(response.text)

\* the first part that carries inlineData, as a png data url; NULL when none
imageUrlOf(response) ==
    LET hits == { i \in 1..Len(response.parts) : response.parts[i].inlineData # NONE }
    IN IF hits = {} THEN NULL
       ELSE dataUrl(IMAGE_PNG,
                    response.parts[CHOOSE i \in hits : \A j \in hits : i <= j].inlineData)

NoCall == [op |-> NONE, input |-> NULL, outcome |-> Pending]
NoHttp == [method |-> NONE, path |-> NONE, key |-> NONE, status |-> 0, body |-> NULL]
NoLocal ==
    [message |-> NULL, sel |-> NULL, isImageRequest |-> FALSE, isEditRequest |-> FALSE,
     branch |-> NONE, prompt |-> NULL, reply |-> NULL, exit |-> NONE]

\* the callers of POST /api/chat and the request of one of them: where it is
\* ("none", "called": awaiting the provider, "answered", "unanswered"), the
\* message of its body, the contents handed to the provider, the response, and
\* the store operation that threw while it was served
Callers == 1..MaxCallers
NoRequest ==
    [at |-> "none", message |-> NULL, contents |-> <<>>, status |-> 0, body |-> NULL,
     threw |-> NONE]

turn(role, content) == [role |-> role, content |-> content]
chatMessage(role, content, imageUrl, imagePromptText) ==
    [role |-> role, content |-> content, imageUrl |-> imageUrl,
     imagePrompt |-> imagePromptText, isSaved |-> FALSE]
textMessage(role, content) == chatMessage(role, content, NULL, NULL)

(***************************************************************************)
(* The typed texts                                                         *)
(***************************************************************************)
HI == <<"h","i">>
CAT == <<"c","a","t">>
SP == <<" ">>

\* the texts typed in the dispatcher runs
Messages ==
    { HI,
      SP,
      <<"S","h","o","w"," ","m","e"," ">> \o SPACE_PIZZA \o SP,
      ADD \o SP \o SHOW_ME \o SP \o SPACE_PIZZA }

(***************************************************************************)
(* Server routes on the tables (each handler runs without interruption up  *)
(* to its await)                                                           *)
(***************************************************************************)
exchange(method, path, key, status, body) ==
    [method |-> method, path |-> path, key |-> key, status |-> status, body |-> body]

getChatRows_noSeed(h) == h

\* GET /api/chat of src/server.ts: the rows, seeding the welcome turn when empty
getChatRows(h) == IF Len(h) = 0 THEN <<turn("model", WELCOME)>> ELSE h

\* POST /api/chat/save {role, content} of the gated server
saveStatus(key) == IF licenseOk(key) THEN 200 ELSE 403
saveRows(h, key, role, content) ==
    IF licenseOk(key) THEN Append(h, turn(role, content)) ELSE h
saveBody(key) == IF licenseOk(key) THEN NULL ELSE FORBIDDEN_ERROR

\* ORDER BY timestamp DESC LIMIT 6, reversed
lastRows(h) ==
    IF Len(h) <= HISTORY_LIMIT THEN h ELSE SubSeq(h, Len(h) - HISTORY_LIMIT + 1, Len(h))

\* history.map(h => ({role: h.role === 'user' ? 'user' : 'model', parts: [{text}]}))
contentsOf(rows) ==
    [i \in 1..Len(rows) |->
        turn(IF rows[i].role = "user" THEN "user" ELSE "model", rows[i].content)]

(***************************************************************************)
(* ORDER BY timestamp on chat_history.  The timestamp is CURRENT_TIMESTAMP *)
(* of the insert, in seconds, so it never decreases along the rows and the *)
(* rows of one second form a run.  SQL leaves the order of the rows of a   *)
(* run open: the engine answers them by rowid (what a plain scan feeding   *)
(* the sorter gives) or in the reverse (a reversed scan).                  *)
(***************************************************************************)
TieOrders == {"rowid", "reverse rowid"}

otherTieOrder(tie) == IF tie = "rowid" THEN "reverse rowid" ELSE "rowid"

\* the first and the last row of the run of same-second rows that holds row i
runStart(S, i) == CHOOSE j \in 1..i : j \notin S /\ \A k \in (j + 1)..i : k \in S
runEnd(n, S, i) ==
    CHOOSE j \in i..n : (\A k \in (i + 1)..j : k \in S) /\ (j = n \/ (j + 1) \notin S)

\* the row indexes in the order of ORDER BY timestamp ASC
ascending(n, S, tie) ==
    [i \in 1..n |-> IF tie = "rowid" THEN i ELSE runStart(S, i) + runEnd(n, S, i) - i]

\* the row indexes in the order of ORDER BY timestamp DESC
descending(n, S, tie) ==
    [i \in 1..n |-> ascending(n, S, otherTieOrder(tie))[n + 1 - i]]

\* SELECT role, content FROM chat_history ORDER BY timestamp ASC
selectAsc(h, S, tie) == [i \in 1..Len(h) |-> h[ascending(Len(h), S, tie)[i]]]

\* SELECT role, content FROM chat_history ORDER BY timestamp DESC LIMIT limit
selectDescLimit(h, S, tie, limit) ==
    [i \in 1..(IF Len(h) < limit THEN Len(h) ELSE limit) |->
        h[descending(Len(h), S, tie)[i]]]

\* Array.prototype.reverse
reverse(rows) == [i \in 1..Len(rows) |-> rows[Len(rows) + 1 - i]]

\* const history = db.prepare("... ORDER BY timestamp DESC LIMIT 6").all().reverse()
contextRows(h, S, tie) == reverse(selectDescLimit(h, S, tie, HISTORY_LIMIT))

\* the set of same-second rows after a row is appended to h; same tells
\* whether the insert falls in the second of the row before
stampAppended(h, S, same) == IF same /\ Len(h) > 0 THEN S \cup {Len(h) + 1} ELSE S

(***************************************************************************)
(* Initial state: the application is open on the command center, nothing   *)
(* stored yet                                                              *)
(***************************************************************************)
InitCommon ==
    /\ variant \in {"ungated", "gated"}
    /\ GEMINI_API_KEY \in BOOLEAN
    /\ http = NoHttp
    /\ provider = NoCall
    /\ isTyping = FALSE
    /\ aiStatus = "online"
    /\ stars = 0
    /\ licenseKey \in (IF variant = "gated" THEN LicenseKeys ELSE {""})
    /\ dailyChallenge = [points |-> DAILY_POINTS, completed |-> FALSE]
    /\ lastAlert = NONE
    /\ pc = "idle"
    /\ local = NoLocal
    /\ sameSecond = {}
    /\ requests = [c \in Callers |-> NoRequest]

Init ==
    /\ InitCommon
    /\ chat_history = <<>> /\ chat = <<>>
    /\ tasks = <<>> /\ tasksState = <<>>
    /\ gallery = <<>>
    /\ sqlite_sequence = [tasks |-> 0, gallery |-> 0]
    /\ selectedImageForEdit = NULL

(***************************************************************************)
(* Client: small handlers                                                  *)
(***************************************************************************)
\* a row of the gallery table
galleryRow(id, type, url, prompt) == [id |-> id, type |-> type, url |-> url, prompt |-> prompt]

\* INSERT INTO gallery (type, url, prompt): the row gets the next id
insertGallery(g, seq, type, url, prompt) ==
    Append(g, galleryRow(seq.gallery + 1, type, url, prompt))

\* the AUTOINCREMENT counter after an insert into the table
nextSeq(seq, table) == [seq EXCEPT ![table] = seq[table] + 1]

\* POST /api/gallery/upload: const { imageUrl } = req.body; .run('uploaded', imageUrl)
uploadType(body) == "uploaded"

\* the prompt column is not in the INSERT of the upload route: it stays NULL
uploadPrompt(body) == NULL

\* the body of an upload request: {imageUrl, prompt?, type?}
uploadBody(imageUrl, prompt, type) == [imageUrl |-> imageUrl, prompt |-> prompt, type |-> type]

\* app.post("/api/gallery/upload"): the rows after the insert
uploadRows(g, seq, body) ==
    insertGallery(g, seq, uploadType(body), body.imageUrl, uploadPrompt(body))

\* handleFileUpload: POST /api/gallery/upload {imageUrl}, stored as 'uploaded'
handleFileUpload(file) ==
    /\ Len(gallery) < MaxGallery /\ sqlite_sequence.gallery < MaxGalleryId
    /\ gallery' = uploadRows(gallery, sqlite_sequence, uploadBody(file, NULL, NONE))
    /\ sqlite_sequence' = nextSeq(sqlite_sequence, "gallery")
    /\ http' = exchange("POST", "/api/gallery/upload", NONE, 200, NULL)
    /\ UNCHANGED <<variant, GEMINI_API_KEY, sameSecond, requests,
                   tasks, tasksState, chat_history, provider, chat,
                   isTyping, aiStatus, stars, licenseKey, selectedImageForEdit,
                   dailyChallenge, lastAlert, pc, local>>

\* handleSaveToGallery(msg.imageUrl, msg.imagePrompt, i) of the gated client:
\* POST /api/gallery/upload {imageUrl, prompt, type: 'generated'}, then the
\* message is marked saved
handleSaveToGallery(index) ==
    /\ variant = "gated"
    /\ index \in 1..Len(chat)
    /\ chat[index].imageUrl # NULL /\ ~chat[index].isSaved
    /\ Len(gallery) < MaxGallery /\ sqlite_sequence.gallery < MaxGalleryId
    /\ gallery' = uploadRows(gallery, sqlite_sequence,
                             uploadBody(chat[index].imageUrl, chat[index].imagePrompt,
                                        "generated"))
    /\ sqlite_sequence' = nextSeq(sqlite_sequence, "gallery")
    /\ http' = exchange("POST", "/api/gallery/upload", NONE, 200, NULL)
    /\ chat' = [chat EXCEPT ![index].isSaved = TRUE]
    /\ UNCHANGED <<variant, GEMINI_API_KEY, sameSecond, requests,
                   tasks, tasksState, chat_history, provider,
                   isTyping, aiStatus, stars, licenseKey, selectedImageForEdit,
                   dailyChallenge, lastAlert, pc, local>>

\* the gallery card's edit button: setSelectedImageForEdit(img.url)
selectImageForEdit(url) ==
    /\ url \in {gallery[i].url : i \in 1..Len(gallery)}
    /\ url # selectedImageForEdit
    /\ selectedImageForEdit' = url
    /\ UNCHANGED <<variant, GEMINI_API_KEY, sameSecond, requests,
                   tasks, tasksState, sqlite_sequence,
                   chat_history, gallery, http, provider, chat,
                   isTyping, aiStatus, stars, licenseKey, dailyChallenge,
                   lastAlert, pc, local>>

\* the "x" on the edit preview: setSelectedImageForEdit(null)
unselectImage ==
    /\ selectedImageForEdit # NULL
    /\ selectedImageForEdit' = NULL
    /\ UNCHANGED <<variant, GEMINI_API_KEY, sameSecond, requests,
                   tasks, tasksState, sqlite_sequence,
                   chat_history, gallery, http, provider, chat,
                   isTyping, aiStatus, stars, licenseKey, dailyChallenge,
                   lastAlert, pc, local>>

\* GET /api/health: ai_configured: !!process.env.GEMINI_API_KEY
ai_configured == GEMINI_API_KEY

apiKeyMissing_never == FALSE

\* if (!apiKey) return res.status(500).json({ error: "AI configuration error" })
apiKeyMissing == ~GEMINI_API_KEY

\* checkHealth, every 10 s: GET /api/health
checkHealth ==
    /\ pc # "unmounted"
    /\ aiStatus' = (IF ai_configured
                    THEN (IF aiStatus = "busy" THEN "busy" ELSE "online")
                    ELSE "offline")
    /\ aiStatus' # aiStatus
    /\ UNCHANGED <<variant, GEMINI_API_KEY, sameSecond, requests,
                   tasks, tasksState, sqlite_sequence,
                   chat_history, gallery, http, provider, chat,
                   isTyping, stars, licenseKey, selectedImageForEdit,
                   dailyChallenge, lastAlert, pc, local>>

(***************************************************************************)
(* Client: sendMessage                                                     *)
(***************************************************************************)
completesChallenge_again(completed, isImage, lowerMsg) ==
    isImage /\ includes(lowerMsg, SPACE_PIZZA)

\* if (!dailyChallenge.completed && isImageRequest && lowerMsg.includes('space pizza'))
completesChallenge(completed, isImage, lowerMsg) ==
    ~completed /\ isImage /\ includes(lowerMsg, SPACE_PIZZA)

\* the locals computed before the try block
localsOf(msg, sel) ==
    [message |-> msg,
     sel |-> sel,
     isImageRequest |-> isImageRequest(toLowerCase(msg)),
     isEditRequest |-> isEditRequest(sel, toLowerCase(msg)),
     branch |-> NONE, prompt |-> NULL, reply |-> NULL, exit |-> NONE]

Finally_noReset ==
    /\ isTyping' = isTyping
    /\ aiStatus' = aiStatus
    /\ pc' = "done"

\* finally { setIsTyping(false); setAiStatus('online') }
Finally ==
    /\ isTyping' = FALSE
    /\ aiStatus' = "online"
    /\ pc' = "done"

\* catch of the gated client: the fallback is displayed, nothing is stored
CatchGated(shown, l) ==
    /\ chat' = Append(shown, textMessage("model", FALLBACK))
    /\ local' = [l EXCEPT !.exit = "failed"]
    /\ Finally

\* sendMessage with no license key in the client state: alert, go offline
sendMessageNoKey(message) ==
    /\ pc = "idle"
    /\ variant = "gated"
    /\ trim(message) # <<>> /\ ~isTyping /\ aiStatus # "offline"
    /\ licenseKey = ""
    /\ lastAlert' = ALERT_NO_KEY
    /\ aiStatus' = "offline"
    /\ local' = [NoLocal EXCEPT !.message = message, !.exit = "alert"]
    /\ pc' = "done"
    /\ UNCHANGED <<variant, GEMINI_API_KEY, sameSecond, requests,
                   tasks, tasksState, sqlite_sequence,
                   chat_history, gallery, http, provider, chat,
                   isTyping, stars, licenseKey, selectedImageForEdit, dailyChallenge>>

\* sendMessage has returned; its locals are gone
returned ==
    /\ pc = "done"
    /\ pc' = "idle"
    /\ local' = NoLocal
    /\ provider' = NoCall
    /\ UNCHANGED <<variant, GEMINI_API_KEY, sameSecond, requests,
                   tasks, tasksState, sqlite_sequence,
                   chat_history, gallery, http, chat, isTyping,
                   aiStatus, stars, licenseKey, selectedImageForEdit, dailyChallenge,
                   lastAlert>>

\* what the ungated client requests first, by branch
firstRequest(b) ==
    CASE b = "edit" -> "editImage"
      [] b = "generate" -> "generateImage"
      [] OTHER -> "postChat"

\* sendMessage, from the submit up to its first await
sendMessage(message) ==
    /\ pc = "idle"
    /\ Len(chat) < MaxTurns /\ Len(chat_history) < MaxTurns
    /\ Len(gallery) <= MaxGallery
    /\ trim(message) # <<>> /\ ~isTyping /\ aiStatus # "offline"
    /\ variant = "gated" => licenseKey # ""
    /\ LET l == localsOf(message, selectedImageForEdit)
           award == completesChallenge(dailyChallenge.completed, l.isImageRequest,
                                       toLowerCase(message))
           shown == Append(chat, textMessage("user", message))
           b == branchOf(l.isEditRequest, l.isImageRequest, l.sel)
       IN /\ dailyChallenge' = (IF award THEN [dailyChallenge EXCEPT !.completed = TRUE]
                                ELSE dailyChallenge)
          /\ stars' = (IF award THEN stars + dailyChallenge.points ELSE stars)
          /\ IF variant = "gated"
             THEN IF ~GEMINI_API_KEY
                  THEN CatchGated(shown, l)
                  ELSE /\ chat' = shown
                       /\ local' = l
                       /\ isTyping' = TRUE
                       /\ aiStatus' = "busy"
                       /\ pc' = "saveUser"
             ELSE /\ chat' = shown
                  /\ local' = [l EXCEPT !.branch = b,
                                        !.prompt = IF b = "generate"
                                                   THEN imagePrompt(variant, message)
                                                   ELSE IF b = "edit" THEN message ELSE NULL]
                  /\ isTyping' = TRUE
                  /\ aiStatus' = "busy"
                  /\ pc' = firstRequest(b)
    /\ UNCHANGED <<variant, GEMINI_API_KEY, sameSecond, requests,
                   tasks, tasksState, sqlite_sequence,
                   chat_history, gallery, http, provider,
                   licenseKey, selectedImageForEdit, lastAlert>>

(***************************************************************************)
(* Gated client (src/unnamed/part_001): the rest of sendMessage            *)
(***************************************************************************)
callOf(op, input) == [op |-> op, input |-> input, outcome |-> Pending]

returnsOn403_missing(status) == FALSE

\* if (saveRes.status === 403) { ...; return; }
returnsOn403(status) == status = 403

\* data.error || "SoloMan is sleeping! Please provide a valid license key."
forbiddenReply(error) == IF error = NULL \/ error = <<>> THEN FORBIDDEN_DEFAULT ELSE error

\* the user turn has been sent to POST /api/chat/save; the branch is taken
saveUserDone ==
    /\ pc = "saveUser"
    /\ LET status == saveStatus(licenseKey)
           body == saveBody(licenseKey)
           b == branchOf(local.isEditRequest, local.isImageRequest, local.sel)
       IN /\ chat_history' = saveRows(chat_history, licenseKey, "user", local.message)
          /\ http' = exchange("POST", "/api/chat/save", licenseKey, status, body)
          /\ IF status # 200
             THEN IF status = 403
                  THEN LET shown == Append(chat, textMessage("model", forbiddenReply(body)))
                       IN IF returnsOn403(status)
                          THEN /\ chat' = shown
                               /\ local' = [local EXCEPT !.exit = "forbidden"]
                               /\ Finally
                               /\ UNCHANGED provider
                          ELSE CatchGated(shown, local) /\ UNCHANGED provider
                  ELSE CatchGated(chat, local) /\ UNCHANGED provider
             ELSE CASE b = "edit" ->
                         IF matchDataUrl(local.sel) = NULL
                         THEN /\ CatchGated(chat, [local EXCEPT !.branch = b])
                              /\ UNCHANGED provider
                         ELSE /\ provider' = callOf("edit", editPromptText(variant, local.message))
                              /\ local' = [local EXCEPT !.branch = b, !.prompt = local.message]
                              /\ pc' = "editCall"
                              /\ UNCHANGED <<chat, isTyping, aiStatus>>
                    [] b = "generate" ->
                         LET prompt == imagePrompt(variant, local.message)
                         IN /\ provider' = callOf("generate", generatePromptText(prompt))
                            /\ local' = [local EXCEPT !.branch = b, !.prompt = prompt]
                            /\ pc' = "generateCall"
                            /\ UNCHANGED <<chat, isTyping, aiStatus>>
                    [] OTHER ->
                         /\ local' = [local EXCEPT !.branch = b]
                         /\ pc' = "fetchHistory"
                         /\ UNCHANGED <<provider, chat, isTyping, aiStatus>>
    /\ UNCHANGED <<variant, GEMINI_API_KEY, sameSecond, requests,
                   tasks, tasksState, sqlite_sequence,
                   gallery, stars, licenseKey,
                   selectedImageForEdit, dailyChallenge, lastAlert>>

\* GET /api/chat of the gated server answered; the chat call is issued
fetchHistoryDone ==
    /\ pc = "fetchHistory"
    /\ IF licenseOk(licenseKey)
       THEN /\ chat_history' = getChatRows(chat_history)
            /\ http' = exchange("GET", "/api/chat", licenseKey, 200, getChatRows(chat_history))
            /\ provider' = callOf("chat", contentsOf(getChatRows(chat_history)))
            /\ pc' = "chatCall"
            /\ UNCHANGED <<chat, isTyping, aiStatus, local>>
       ELSE /\ http' = exchange("GET", "/api/chat", licenseKey, 403, FORBIDDEN_ERROR)
            /\ CatchGated(chat, local)
            /\ UNCHANGED <<chat_history, provider>>
    /\ UNCHANGED <<variant, GEMINI_API_KEY, sameSecond, requests,
                   tasks, tasksState, sqlite_sequence,
                   gallery, stars, licenseKey,
                   selectedImageForEdit, dailyChallenge, lastAlert>>

\* the chat call returned or threw
chatCallDone(outcome) ==
    /\ pc = "chatCall"
    /\ provider' = [provider EXCEPT !.outcome = outcome]
    /\ IF outcome.kind = "response" /\ aiResponseOf(outcome) # <<>>
       THEN /\ chat' = Append(chat, textMessage("model", aiResponseOf(outcome)))
            /\ local' = [local EXCEPT !.reply = aiResponseOf(outcome)]
            /\ pc' = "saveModel"
            /\ UNCHANGED <<isTyping, aiStatus>>
       ELSE CatchGated(chat, local)
    /\ UNCHANGED <<variant, GEMINI_API_KEY, sameSecond, requests,
                   tasks, tasksState, sqlite_sequence,
                   chat_history, gallery, http, stars,
                   licenseKey, selectedImageForEdit, dailyChallenge, lastAlert>>

\* the image call (generate or edit) returned or threw
imageCallDone(outcome) ==
    /\ pc \in {"generateCall", "editCall"}
    /\ provider' = [provider EXCEPT !.outcome = outcome]
    /\ IF outcome.kind = "response" /\ imageUrlOf(outcome) # NULL
       THEN LET content == IF pc = "editCall" THEN editedThePic(variant)
                           ELSE hereIsThePic(variant, local.prompt)
                shownPrompt == IF pc = "editCall" THEN <<"Edit: ">> \o local.message
                               ELSE local.prompt
            IN /\ chat' = Append(chat, chatMessage("model", content, imageUrlOf(outcome),
                                                   shownPrompt))
               /\ local' = [local EXCEPT !.reply = content]
               /\ pc' = "saveModel"
               /\ UNCHANGED <<isTyping, aiStatus>>
       ELSE CatchGated(chat, local)
    /\ UNCHANGED <<variant, GEMINI_API_KEY, sameSecond, requests,
                   tasks, tasksState, sqlite_sequence,
                   chat_history, gallery, http, stars,
                   licenseKey, selectedImageForEdit, dailyChallenge, lastAlert>>

\* the model turn has been sent to POST /api/chat/save; sendMessage ends
saveModelDone ==
    /\ pc = "saveModel"
    /\ chat_history' = saveRows(chat_history, licenseKey, "model", local.reply)
    /\ http' = exchange("POST", "/api/chat/save", licenseKey, saveStatus(licenseKey),
                        saveBody(licenseKey))
    /\ selectedImageForEdit' = (IF local.branch = "edit" THEN NULL ELSE selectedImageForEdit)
    /\ local' = [local EXCEPT !.exit = "ok"]
    /\ Finally
    /\ UNCHANGED <<variant, GEMINI_API_KEY, sameSecond, requests,
                   tasks, tasksState, sqlite_sequence,
                   gallery, provider, chat, stars,
                   licenseKey, dailyChallenge, lastAlert>>

(***************************************************************************)
(* Ungated deployment: the routes of src/server.ts and the continuation of *)
(* the client of src/unnamed/part_000 once the response arrives            *)
(***************************************************************************)
\* the client after /api/edit-image or /api/generate-image answered: it reads
\* data.imageUrl whatever the status
imageAnswered(imageUrl) ==
    /\ chat' = Append(chat, chatMessage("model",
                                        IF local.branch = "edit" THEN editedThePic(variant)
                                        ELSE hereIsThePic(variant, local.prompt),
                                        imageUrl, NULL))
    /\ selectedImageForEdit' = (IF local.branch = "edit" THEN NULL ELSE selectedImageForEdit)
    /\ local' = [local EXCEPT !.exit = "ok"]
    /\ Finally

\* the client after POST /api/chat answered: it displays data.response
chatAnswered(response) ==
    /\ chat' = Append(chat, textMessage("model", response))
    /\ local' = [local EXCEPT !.reply = response, !.exit = "ok"]
    /\ Finally

\* POST /api/edit-image {prompt, base64Image}, up to the provider call
editImageRoute ==
    /\ pc = "editImage"
    /\ IF apiKeyMissing
       THEN /\ http' = exchange("POST", "/api/edit-image", NONE, 500, AI_CONFIG_ERROR)
            /\ imageAnswered(NULL)
            /\ UNCHANGED provider
       ELSE IF matchDataUrl(local.sel) = NULL
       THEN /\ http' = exchange("POST", "/api/edit-image", NONE, 400, <<"Invalid image format">>)
            /\ imageAnswered(NULL)
            /\ UNCHANGED provider
       ELSE /\ http' = exchange("POST", "/api/edit-image", NONE, 0, NULL)
            /\ provider' = callOf("edit", editPromptText(variant, local.prompt))
            /\ pc' = "serverImageCall"
            /\ UNCHANGED <<chat, selectedImageForEdit, local, isTyping, aiStatus>>
    /\ UNCHANGED <<variant, GEMINI_API_KEY, sameSecond, requests,
                   tasks, tasksState, sqlite_sequence,
                   chat_history, gallery, stars,
                   licenseKey, dailyChallenge, lastAlert>>

\* POST /api/generate-image {prompt}, up to the provider call
generateImageRoute ==
    /\ pc = "generateImage"
    /\ IF apiKeyMissing
       THEN /\ http' = exchange("POST", "/api/generate-image", NONE, 500, AI_CONFIG_ERROR)
            /\ imageAnswered(NULL)
            /\ UNCHANGED provider
       ELSE /\ http' = exchange("POST", "/api/generate-image", NONE, 0, NULL)
            /\ provider' = callOf("generate", generatePromptText(local.prompt))
            /\ pc' = "serverImageCall"
            /\ UNCHANGED <<chat, selectedImageForEdit, local, isTyping, aiStatus>>
    /\ UNCHANGED <<variant, GEMINI_API_KEY, sameSecond, requests,
                   tasks, tasksState, sqlite_sequence,
                   chat_history, gallery, stars,
                   licenseKey, dailyChallenge, lastAlert>>

\* the image routes after the provider call: gallery row and response
serverImageCallDone(outcome) ==
    /\ pc = "serverImageCall"
    /\ provider' = [provider EXCEPT !.outcome = outcome]
    /\ IF outcome.kind = "response" /\ imageUrlOf(outcome) # NULL
       THEN /\ gallery' = insertGallery(gallery, sqlite_sequence, "generated",
                                         imageUrlOf(outcome),
                                         IF local.branch = "edit"
                                         THEN <<"Edit: ">> \o local.prompt
                                         ELSE local.prompt)
            /\ sqlite_sequence' = nextSeq(sqlite_sequence, "gallery")
            /\ http' = [http EXCEPT !.status = 200, !.body = imageUrlOf(outcome)]
            /\ imageAnswered(imageUrlOf(outcome))
       ELSE /\ http' = [http EXCEPT !.status = 500, !.body = <<"Failed">>]
            /\ imageAnswered(NULL)
            /\ UNCHANGED <<gallery, sqlite_sequence>>
    /\ UNCHANGED <<variant, GEMINI_API_KEY, sameSecond, requests,
                   tasks, tasksState, chat_history, stars,
                   licenseKey, dailyChallenge, lastAlert>>

\* POST /api/chat {message}, up to the provider call
postChatRoute ==
    /\ pc = "postChat"
    /\ IF apiKeyMissing
       THEN /\ http' = exchange("POST", "/api/chat", NONE, 500, AI_CONFIG_ERROR)
            /\ chatAnswered(undefined)
            /\ UNCHANGED <<chat_history, provider>>
       ELSE LET saved == Append(chat_history, turn("user", local.message))
            IN /\ chat_history' = saved
               /\ http' = exchange("POST", "/api/chat", NONE, 0, NULL)
               /\ provider' = callOf("chat", contentsOf(lastRows(saved)))
               /\ pc' = "serverChatCall"
               /\ UNCHANGED <<chat, local, isTyping, aiStatus>>
    /\ UNCHANGED <<variant, GEMINI_API_KEY, sameSecond, requests,
                   tasks, tasksState, sqlite_sequence,
                   gallery, stars, licenseKey,
                   selectedImageForEdit, dailyChallenge, lastAlert>>

replyRows_untrimmed(h, outcome) == Append(h, turn("model", outcome.text))

replyRows_overwrite(h, outcome) ==
    IF h = <<>> THEN <<turn("model", aiResponseOf(outcome))>>
    ELSE [h EXCEPT ![Len(h)] = turn("model", aiResponseOf(outcome))]

\* db.prepare("INSERT INTO chat_history ...").run('model', aiResponse)
replyRows(h, outcome) == Append(h, turn("model", aiResponseOf(outcome)))

\* POST /api/chat after the provider call: the reply, or the fallback from catch
postChatDone(outcome) ==
    /\ pc = "serverChatCall"
    /\ provider' = [provider EXCEPT !.outcome = outcome]
    /\ IF outcome.kind = "response" /\ aiResponseOf(outcome) # <<>>
       THEN /\ chat_history' = replyRows(chat_history, outcome)
            /\ http' = [http EXCEPT !.status = 200, !.body = aiResponseOf(outcome)]
            /\ chatAnswered(aiResponseOf(outcome))
       ELSE /\ http' = [http EXCEPT !.status = 200, !.body = FALLBACK]
            /\ chatAnswered(FALLBACK)
            /\ UNCHANGED chat_history
    /\ UNCHANGED <<variant, GEMINI_API_KEY, sameSecond, requests,
                   tasks, tasksState, sqlite_sequence,
                   gallery, stars, licenseKey,
                   selectedImageForEdit, dailyChallenge, lastAlert>>

(***************************************************************************)
(* Chat history: mount-time fetch and clear                                *)
(***************************************************************************)
\* const [licenseKey, setLicenseKey] = useState(''): the license key of the
\* first render, the one the closure of the mount effect reads
initialLicenseKey == ""

\* the body of fetchChat run with the license key of its closure: GET
\* /api/chat, then setChat(data) when the answer is ok.  The gated client
\* returns at once without a license key and sends the key it has; the gated
\* server answers 403 to an invalid one.
fetchChatCall(key) ==
    IF variant = "gated" /\ key = ""
    THEN UNCHANGED <<chat_history, http, chat>>
    ELSE IF variant = "ungated" \/ licenseOk(key)
    THEN /\ chat_history' = getChatRows(chat_history)
         /\ http' = exchange("GET", "/api/chat",
                             IF variant = "gated" THEN key ELSE NONE,
                             200, getChatRows(chat_history))
         /\ chat' = [i \in 1..Len(getChatRows(chat_history)) |->
                        textMessage(getChatRows(chat_history)[i].role,
                                    getChatRows(chat_history)[i].content)]
    ELSE /\ http' = exchange("GET", "/api/chat", key, 403, FORBIDDEN_ERROR)
         /\ UNCHANGED <<chat_history, chat>>

\* fetchChat, whose only call is the one of the mount effect: the request
\* started at mount is answered
fetchChat ==
    /\ pc = "idle" /\ http = NoHttp /\ chat = <<>>
    /\ variant = "gated" => initialLicenseKey # ""
    /\ fetchChatCall(initialLicenseKey)
    /\ UNCHANGED <<variant, GEMINI_API_KEY, sameSecond, requests,
                   tasks, tasksState, sqlite_sequence,
                   gallery, provider, isTyping, aiStatus,
                   stars, licenseKey, selectedImageForEdit, dailyChallenge, lastAlert, pc,
                   local>>

\* clearChat: DELETE /api/chat, then setChat([]) whatever the answer.
\* src/server.ts deletes every row; the gated server first checks the key.
clearChat ==
    /\ Len(chat_history) > 0 \/ Len(chat) > 0
    /\ IF variant = "ungated"
       THEN /\ chat_history' = <<>>
            /\ http' = exchange("DELETE", "/api/chat", NONE, 200, NULL)
       ELSE IF licenseOk(licenseKey)
       THEN /\ chat_history' = <<>>
            /\ http' = exchange("DELETE", "/api/chat", licenseKey, 200, NULL)
       ELSE /\ http' = exchange("DELETE", "/api/chat", licenseKey, 403, FORBIDDEN_ERROR)
            /\ UNCHANGED chat_history
    /\ chat' = <<>>
    /\ sameSecond' = (IF chat_history' = <<>> THEN {} ELSE sameSecond)
    /\ UNCHANGED <<variant, GEMINI_API_KEY, requests, tasks, tasksState, sqlite_sequence,
                   gallery, provider, isTyping, aiStatus,
                   stars, licenseKey, selectedImageForEdit, dailyChallenge, lastAlert, pc,
                   local>>

(***************************************************************************)
(* Specification of the dispatcher: one request is served at a time        *)
(***************************************************************************)
\* the handlers of the mounted client and the continuations of sendMessage
Handlers ==
    \/ \E file \in Files : pc = "idle" /\ handleFileUpload(file)
    \/ \E index \in 1..(MaxTurns + 1) : pc = "idle" /\ handleSaveToGallery(index)
    \/ \E url \in Files : pc = "idle" /\ selectImageForEdit(url)
    \/ pc = "idle" /\ unselectImage
    \/ checkHealth
    \/ \E text \in Messages : sendMessageNoKey(text)
    \/ \E text \in Messages : sendMessage(text)
    \/ returned
    \/ saveUserDone
    \/ fetchHistoryDone
    \/ \E outcome \in ChatOutcomes : chatCallDone(outcome)
    \/ \E outcome \in ImageOutcomes : imageCallDone(outcome)
    \/ saveModelDone
    \/ editImageRoute
    \/ generateImageRoute
    \/ \E outcome \in ImageOutcomes : serverImageCallDone(outcome)
    \/ postChatRoute
    \/ \E outcome \in ChatOutcomes : postChatDone(outcome)
    \/ pc = "idle" /\ clearChat

Next ==
    \/ Handlers
    \/ fetchChat

Spec == Init /\ [][Next]_vars

\* the steps that resume sendMessage when the promise it awaits settles (the
\* fetch is answered or fails, generateContent returns or throws)
Resume ==
    \/ saveUserDone
    \/ fetchHistoryDone
    \/ \E outcome \in ChatOutcomes : chatCallDone(outcome)
    \/ \E outcome \in ImageOutcomes : imageCallDone(outcome)
    \/ saveModelDone
    \/ editImageRoute
    \/ generateImageRoute
    \/ \E outcome \in ImageOutcomes : serverImageCallDone(outcome)
    \/ postChatRoute
    \/ \E outcome \in ChatOutcomes : postChatDone(outcome)

\* the dispatcher where every awaited promise settles: the event loop then
\* runs the continuation
SpecLive == Spec /\ WF_vars(Resume)

(***************************************************************************)
(* Specification of the classification: any text built from the pieces is  *)
(* submitted once, with or without an image under edit, and followed up to *)
(* the branch sendMessage takes                                            *)
(***************************************************************************)
Pieces ==
    { <<"S","h","o","w"," ","m","e"," ">>,
      BRING_ME,
      <<" ">> \o PIC_OF \o <<" ">>,
      <<"a">>,
      <<"a","n">>,
      CAT,
      ADD \o <<" ">>,
      REMOVE,
      CHANGE,
      EDIT,
      MAKE_IT,
      <<" ">> \o SPACE_PIZZA }

RECURSIVE TextsOf(_)
TextsOf(n) ==
    IF n = 0 THEN {<<>>}
    ELSE TextsOf(n - 1) \cup { t \o p : t \in TextsOf(n - 1), p \in Pieces }

Texts == TextsOf(MaxPieces)

InitClassify ==
    /\ InitCommon
    /\ chat_history = <<>> /\ chat = <<>>
    /\ tasks = <<>> /\ tasksState = <<>>
    /\ \/ /\ selectedImageForEdit = NULL
          /\ gallery = <<>>
          /\ sqlite_sequence = [tasks |-> 0, gallery |-> 0]
       \/ \E file \in Files :
             /\ selectedImageForEdit = file
             /\ gallery = <<galleryRow(1, "uploaded", file, NULL)>>
             /\ sqlite_sequence = [tasks |-> 0, gallery |-> 1]

NextClassify ==
    \/ \E text \in Texts : sendMessage(text)
    \/ saveUserDone

SpecClassify == InitClassify /\ [][NextClassify]_vars

(***************************************************************************)
(* Missions: the tasks table, its routes (src/server.ts) and the client's  *)
(* handlers                                                                *)
(***************************************************************************)
\* a row of the tasks table; status TEXT DEFAULT 'pending', no CHECK on it
taskRow(id, title, description, status) ==
    [id |-> id, title |-> title, description |-> description, status |-> status]

\* const initialMissions = [...]
initialMissions ==
    << [title |-> <<"Say hi to SoloMan in Chat!">>,
        description |-> <<"Start your first conversation.">>],
       [title |-> <<"Ask for a picture of a Dragon!">>,
        description |-> <<"Use 'show me' in chat.">>],
       [title |-> <<"Complete your first mission!">>,
        description |-> <<"Click the circle to finish.">>] >>

\* INSERT INTO tasks (title, description) for each mission of the list, in order
insertTasks(t, seq, missions) ==
    t \o [i \in 1..Len(missions) |->
             taskRow(seq.tasks + i, missions[i].title, missions[i].description, "pending")]

seqAfterTasks(seq, n) == [seq EXCEPT !.tasks = seq.tasks + n]

\* if (tasks.length === 0) { insert the initial missions }
seedsMissions(t) == Len(t) = 0

\* GET /api/tasks: the table after the request
getTasksRows(t, seq) ==
    IF seedsMissions(t) THEN insertTasks(t, seq, initialMissions) ELSE t

\* ORDER BY created_at DESC (rows created in the same second come in the
\* order of the scan; the model answers them newest id first)
newestFirst(rows) == [i \in 1..Len(rows) |-> rows[Len(rows) + 1 - i]]

\* data.filter(t => t.status === 'completed').length
completedCount(rows) == Cardinality({i \in 1..Len(rows) : rows[i].status = "completed"})

\* fetchTasks (mount effect): GET /api/tasks, setTasks(data), setStars(completedCount * 10)
fetchTasks ==
    /\ pc = "idle"
    /\ seedsMissions(tasks) => sqlite_sequence.tasks + Len(initialMissions) <= MaxTaskId
    /\ tasks' = getTasksRows(tasks, sqlite_sequence)
    /\ sqlite_sequence' = seqAfterTasks(sqlite_sequence, Len(tasks') - Len(tasks))
    /\ http' = exchange("GET", "/api/tasks", NONE, 200, newestFirst(tasks'))
    /\ tasksState' = newestFirst(tasks')
    /\ stars' = completedCount(tasks') * 10
    /\ UNCHANGED <<variant, GEMINI_API_KEY, sameSecond, requests,
                   chat_history, gallery, provider, chat, isTyping,
                   aiStatus, licenseKey, selectedImageForEdit, dailyChallenge, lastAlert,
                   pc, local>>

\* the titles typed in the new-mission form
Titles == {<<"m">>, <<" ">>}

\* addTask: POST /api/tasks {title, description: ''}; setTasks([data, ...tasks])
addTask(title) ==
    /\ pc = "idle"
    /\ trim(title) # <<>>
    /\ sqlite_sequence.tasks < MaxTaskId /\ Len(tasks) < Len(initialMissions)
    /\ tasks' = insertTasks(tasks, sqlite_sequence, <<[title |-> title, description |-> <<>>]>>)
    /\ sqlite_sequence' = seqAfterTasks(sqlite_sequence, 1)
    /\ http' = exchange("POST", "/api/tasks", NONE, 200, <<tasks'[Len(tasks')]>>)
    /\ tasksState' = <<tasks'[Len(tasks')]>> \o tasksState
    /\ UNCHANGED <<variant, GEMINI_API_KEY, sameSecond, requests,
                   chat_history, gallery, provider, chat, isTyping,
                   aiStatus, stars, licenseKey, selectedImageForEdit, dailyChallenge,
                   lastAlert, pc, local>>

\* POST /api/tasks with a body that has no title: title TEXT NOT NULL makes the
\* insert throw, the catch answers 500
postTaskNoTitle ==
    /\ pc = "idle"
    /\ http' = exchange("POST", "/api/tasks", NONE, 500, <<"Failed to add task">>)
    /\ http' # http
    /\ UNCHANGED <<variant, GEMINI_API_KEY, sameSecond, requests,
                   chat_history, gallery, tasks, sqlite_sequence,
                   provider, chat, isTyping, aiStatus, stars, tasksState, licenseKey,
                   selectedImageForEdit, dailyChallenge, lastAlert, pc, local>>

\* UPDATE tasks SET status = ? WHERE id = ?
patchRows(t, id, status) ==
    [i \in 1..Len(t) |-> IF t[i].id = id THEN [t[i] EXCEPT !.status = status] ELSE t[i]]

\* DELETE FROM tasks WHERE id = ?
deleteRows(t, id) == SelectSeq(t, LAMBDA row : row.id # id)

\* the status values a PATCH body can carry
PatchStatuses == {"archived"}

\* PATCH /api/tasks/:id {status} sent by any caller: the value is stored as given
patchTask(id, status) ==
    /\ pc = "idle"
    /\ id \in 1..sqlite_sequence.tasks
    /\ tasks' = patchRows(tasks, id, status)
    /\ http' = exchange("PATCH", "/api/tasks/:id", NONE, 200, NULL)
    /\ tasks' # tasks
    /\ UNCHANGED <<variant, GEMINI_API_KEY, sameSecond, requests,
                   chat_history, gallery, sqlite_sequence, provider,
                   chat, isTyping, aiStatus, stars, tasksState, licenseKey,
                   selectedImageForEdit, dailyChallenge, lastAlert, pc, local>>

\* const newStatus = currentStatus === 'pending' ? 'completed' : 'pending'
newStatusOf(currentStatus) == IF currentStatus = "pending" THEN "completed" ELSE "pending"

starsAfterToggle_noFloor(s, newStatus) == IF newStatus = "completed" THEN s + 10 ELSE s

\* setStars(prev => prev + 10) / setStars(prev => Math.max(0, prev - 10))
starsAfterToggle(s, newStatus) ==
    IF newStatus = "completed" THEN s + 10 ELSE IF s - 10 > 0 THEN s - 10 ELSE 0

\* toggleTask(task.id, task.status) on a mission the client displays
toggleTask(k) ==
    /\ pc = "idle"
    /\ k \in 1..Len(tasksState)
    /\ LET id == tasksState[k].id
           newStatus == newStatusOf(tasksState[k].status)
       IN /\ tasks' = patchRows(tasks, id, newStatus)
          /\ http' = exchange("PATCH", "/api/tasks/:id", NONE, 200, NULL)
          /\ stars' = starsAfterToggle(stars, newStatus)
          /\ tasksState' = patchRows(tasksState, id, newStatus)
    /\ UNCHANGED <<variant, GEMINI_API_KEY, sameSecond, requests,
                   chat_history, gallery, sqlite_sequence, provider,
                   chat, isTyping, aiStatus, licenseKey, selectedImageForEdit,
                   dailyChallenge, lastAlert, pc, local>>

\* deleteTask(task.id): DELETE /api/tasks/:id; setTasks(tasks.filter(...))
deleteTask(k) ==
    /\ pc = "idle"
    /\ k \in 1..Len(tasksState)
    /\ tasks' = deleteRows(tasks, tasksState[k].id)
    /\ http' = exchange("DELETE", "/api/tasks/:id", NONE, 200, NULL)
    /\ tasksState' = deleteRows(tasksState, tasksState[k].id)
    /\ UNCHANGED <<variant, GEMINI_API_KEY, sameSecond, requests,
                   chat_history, gallery, sqlite_sequence, provider,
                   chat, isTyping, aiStatus, stars, licenseKey, selectedImageForEdit,
                   dailyChallenge, lastAlert, pc, local>>

\* the missions run starts when the mount effect has fetched the missions of
\* a new database: the starter missions are stored and displayed
InitMissions ==
    /\ InitCommon
    /\ variant = "ungated"
    /\ GEMINI_API_KEY
    /\ chat_history = <<>> /\ chat = <<>>
    /\ tasks = getTasksRows(<<>>, [tasks |-> 0, gallery |-> 0])
    /\ tasksState = newestFirst(tasks)
    /\ gallery = <<>>
    /\ sqlite_sequence = [tasks |-> Len(tasks), gallery |-> 0]
    /\ selectedImageForEdit = NULL

NextMissions ==
    \/ fetchTasks
    \/ \E title \in Titles : addTask(title)
    \/ postTaskNoTitle
    \/ \E id \in 1..MaxTaskId : \E status \in PatchStatuses : patchTask(id, status)
    \/ \E k \in 1..MaxTaskId : toggleTask(k)
    \/ \E k \in 1..MaxTaskId : deleteTask(k)

SpecMissions == InitMissions /\ [][NextMissions]_vars

(***************************************************************************)
(* Gallery and chat routes of src/server.ts called outside sendMessage     *)
(***************************************************************************)
getGalleryRows_generatedOnly(g) == newestFirst(SelectSeq(g, LAMBDA row : row.type = "generated"))

\* SELECT * FROM gallery ORDER BY timestamp DESC
getGalleryRows(g) == newestFirst(g)

\* fetchGallery: GET /api/gallery (called, not awaited, after an upload, a
\* delete and at mount)
fetchGallery ==
    /\ pc = "idle"
    /\ http' = exchange("GET", "/api/gallery", NONE, 200, getGalleryRows(gallery))
    /\ http' # http
    /\ UNCHANGED <<variant, GEMINI_API_KEY, sameSecond, requests,
                   chat_history, gallery, tasks, sqlite_sequence,
                   provider, chat, isTyping, aiStatus, stars, tasksState, licenseKey,
                   selectedImageForEdit, dailyChallenge, lastAlert, pc, local>>

\* the delete button of a gallery card: DELETE /api/gallery/:id
deleteGalleryImage(id) ==
    /\ pc = "idle"
    /\ \E i \in 1..Len(gallery) : gallery[i].id = id
    /\ gallery' = SelectSeq(gallery, LAMBDA row : row.id # id)
    /\ http' = exchange("DELETE", "/api/gallery/:id", NONE, 200, NULL)
    /\ UNCHANGED <<variant, GEMINI_API_KEY, sameSecond, requests,
                   chat_history, tasks, sqlite_sequence, provider,
                   chat, isTyping, aiStatus, stars, tasksState, licenseKey,
                   selectedImageForEdit, dailyChallenge, lastAlert, pc, local>>

\* GET /api/chat of src/server.ts sent by any caller (a page load)
getChat(tie) ==
    /\ pc = "idle"
    /\ variant = "ungated"
    /\ chat_history' = getChatRows(chat_history)
    /\ http' = exchange("GET", "/api/chat", NONE, 200,
                        selectAsc(getChatRows(chat_history), sameSecond, tie))
    /\ http' # http
    /\ UNCHANGED <<variant, GEMINI_API_KEY, sameSecond, requests,
                   gallery, tasks, sqlite_sequence, provider,
                   chat, isTyping, aiStatus, stars, tasksState, licenseKey,
                   selectedImageForEdit, dailyChallenge, lastAlert, pc, local>>

\* the chat histories the routes run starts from: the welcome turn the mount
\* seeded, alone or followed by a message, answered or not
StoredHistories ==
    { <<turn("model", WELCOME)>>,
      <<turn("model", WELCOME), turn("user", HI)>>,
      <<turn("model", WELCOME), turn("user", HI), turn("model", <<"o","k">>)>> }

\* the routes run starts with the stored history displayed
InitRoutes ==
    /\ InitCommon
    /\ variant = "ungated"
    /\ GEMINI_API_KEY
    /\ chat_history \in StoredHistories
    /\ chat = [i \in 1..Len(chat_history) |->
                  textMessage(chat_history[i].role, chat_history[i].content)]
    /\ tasks = <<>> /\ tasksState = <<>>
    /\ gallery = <<>>
    /\ sqlite_sequence = [tasks |-> 0, gallery |-> 0]
    /\ selectedImageForEdit = NULL

NextRoutes ==
    \/ \E file \in Files : handleFileUpload(file)
    \/ fetchGallery
    \/ \E id \in 1..MaxGalleryId : deleteGalleryImage(id)
    \/ clearChat
    \/ \E tie \in TieOrders : getChat(tie)

SpecRoutes == InitRoutes /\ [][NextRoutes]_vars

(***************************************************************************)
(* POST /api/chat of src/server.ts under several callers: the handler runs *)
(* without interruption up to its await of the provider; other requests,   *)
(* a clear of the history and a restart of the server fall in between.     *)
(* A store operation either succeeds or throws.                            *)
(***************************************************************************)
Digits == <<"1", "2", "3", "4", "5", "6", "7", "8", "9">>

\* what caller c posts: a question of its own, or a blank
CallerMessages(c) == {<<"q", Digits[c]>>, SP}

\* what the provider answers caller c
CallerOutcomes(c) == {ProviderError, textResponse(<<" ", "r", Digits[c], " ">>)}

\* the request of caller c, from its arrival to the await of generateContent.
\* The INSERT of the user turn is outside the try block: when it throws, the
\* async handler rejects, and the framework either leaves the request
\* unanswered or answers 500 from its error handler.
postChat(c, message, same, tie, threw, handled) ==
    /\ requests[c].at = "none"
    /\ Len(chat_history) < HISTORY_LIMIT + MaxCallers
    /\ IF apiKeyMissing
       THEN /\ requests' = [requests EXCEPT ![c] =
                   [NoRequest EXCEPT !.at = "answered", !.message = message,
                                     !.status = 500, !.body = AI_CONFIG_ERROR]]
            /\ UNCHANGED <<chat_history, sameSecond>>
       ELSE IF threw
       THEN /\ requests' = [requests EXCEPT ![c] =
                   IF handled
                   THEN [NoRequest EXCEPT !.at = "answered", !.message = message,
                                          !.status = 500, !.threw = "user turn"]
                   ELSE [NoRequest EXCEPT !.at = "unanswered", !.message = message,
                                          !.threw = "user turn"]]
            /\ UNCHANGED <<chat_history, sameSecond>>
       ELSE /\ chat_history' = Append(chat_history, turn("user", message))
            /\ sameSecond' = stampAppended(chat_history, sameSecond, same)
            /\ requests' = [requests EXCEPT ![c] =
                   [NoRequest EXCEPT !.at = "called", !.message = message,
                                     !.contents =
                                         contentsOf(contextRows(chat_history', sameSecond',
                                                                tie))]]
    /\ UNCHANGED <<variant, GEMINI_API_KEY, gallery, tasks, sqlite_sequence, http, provider,
                   chat, isTyping, aiStatus, stars, tasksState, licenseKey,
                   selectedImageForEdit, dailyChallenge, lastAlert, pc, local>>

\* the request of caller c after the provider call: the reply is stored and
\* answered; an error, an empty text or a throwing INSERT ends in the catch
postChatAnswer(c, outcome, same, threw) ==
    /\ requests[c].at = "called"
    /\ IF outcome.kind = "response" /\ aiResponseOf(outcome) # <<>>
       THEN IF threw
            THEN /\ requests' = [requests EXCEPT ![c].at = "answered", ![c].status = 200,
                                                 ![c].body = FALLBACK,
                                                 ![c].threw = "model turn"]
                 /\ UNCHANGED <<chat_history, sameSecond>>
            ELSE /\ chat_history' = replyRows(chat_history, outcome)
                 /\ sameSecond' = stampAppended(chat_history, sameSecond, same)
                 /\ requests' = [requests EXCEPT ![c].at = "answered", ![c].status = 200,
                                                 ![c].body = aiResponseOf(outcome)]
       ELSE /\ requests' = [requests EXCEPT ![c].at = "answered", ![c].status = 200,
                                            ![c].body = FALLBACK]
            /\ UNCHANGED <<chat_history, sameSecond>>
    /\ UNCHANGED <<variant, GEMINI_API_KEY, gallery, tasks, sqlite_sequence, http, provider,
                   chat, isTyping, aiStatus, stars, tasksState, licenseKey,
                   selectedImageForEdit, dailyChallenge, lastAlert, pc, local>>

\* the server process ends while requests await the provider: they are lost
restart ==
    /\ \E c \in Callers : requests[c].at = "called"
    /\ requests' = [c \in Callers |->
                       IF requests[c].at = "called"
                       THEN [requests[c] EXCEPT !.at = "unanswered"]
                       ELSE requests[c]]
    /\ UNCHANGED <<variant, GEMINI_API_KEY, chat_history, sameSecond, gallery, tasks,
                   sqlite_sequence, http, provider, chat, isTyping, aiStatus, stars,
                   tasksState, licenseKey, selectedImageForEdit, dailyChallenge,
                   lastAlert, pc, local>>

\* the turns stored by earlier sessions, each in a second of its own
OldTurns ==
    << turn("model", WELCOME),
       turn("user", <<"o", "1">>), turn("model", <<"a", "1">>),
       turn("user", <<"o", "2">>), turn("model", <<"a", "2">>),
       turn("user", <<"o", "3">>) >>

\* the callers run starts on a new database or on the stored turns
InitCallers ==
    /\ InitCommon
    /\ variant = "ungated"
    /\ chat_history \in {<<>>, OldTurns}
    /\ chat = <<>>
    /\ tasks = <<>> /\ tasksState = <<>>
    /\ gallery = <<>>
    /\ sqlite_sequence = [tasks |-> 0, gallery |-> 0]
    /\ selectedImageForEdit = NULL

NextCallers ==
    \/ \E c \in Callers : \E message \in CallerMessages(c) : \E same \in BOOLEAN :
          \E tie \in TieOrders : \E threw \in BOOLEAN : \E handled \in BOOLEAN :
             postChat(c, message, same, tie, threw, handled)
    \/ \E c \in Callers : \E outcome \in CallerOutcomes(c) : \E same \in BOOLEAN :
          \E threw \in BOOLEAN : postChatAnswer(c, outcome, same, threw)
    \/ restart
    \/ \E tie \in TieOrders : getChat(tie)
    \/ clearChat

SpecCallers == InitCallers /\ [][NextCallers]_vars

(***************************************************************************)
(* The page load: the component is constructed, then its mount effect runs *)
(***************************************************************************)
\* the state of the first render (the useState initial values) over a
\* database that holds a history
InitMount ==
    /\ variant \in {"ungated", "gated"}
    /\ GEMINI_API_KEY \in BOOLEAN
    /\ http = NoHttp
    /\ provider = NoCall
    /\ isTyping = FALSE
    /\ aiStatus = "online"
    /\ stars = 0
    /\ licenseKey = initialLicenseKey
    /\ dailyChallenge = [points |-> DAILY_POINTS, completed |-> FALSE]
    /\ lastAlert = NONE
    /\ pc = "unmounted"
    /\ local = NoLocal
    /\ sameSecond = {}
    /\ requests = [c \in Callers |-> NoRequest]
    /\ chat_history \in StoredHistories /\ chat = <<>>
    /\ tasks = <<>> /\ tasksState = <<>>
    /\ gallery = <<>>
    /\ sqlite_sequence = [tasks |-> 0, gallery |-> 0]
    /\ selectedImageForEdit = NULL

\* the mount effect, with the answers to the requests it starts: fetchTasks(),
\* fetchChat() and checkHealth() run with the state of the first render, then
\* the license key saved in local storage, if any, is put in the state.  The
\* stars read from local storage are overwritten by fetchTasks.
mount(savedLicense) ==
    /\ pc = "unmounted"
    /\ seedsMissions(tasks) => sqlite_sequence.tasks + Len(initialMissions) <= MaxTaskId
    /\ tasks' = getTasksRows(tasks, sqlite_sequence)
    /\ sqlite_sequence' = seqAfterTasks(sqlite_sequence, Len(tasks') - Len(tasks))
    /\ tasksState' = newestFirst(tasks')
    /\ stars' = completedCount(tasks') * 10
    /\ fetchChatCall(licenseKey)
    /\ aiStatus' = (IF ai_configured THEN "online" ELSE "offline")
    /\ licenseKey' = (IF variant = "gated" /\ savedLicense # ""
                      THEN savedLicense ELSE licenseKey)
    /\ pc' = "idle"
    /\ UNCHANGED <<variant, GEMINI_API_KEY, sameSecond, requests, gallery, provider,
                   isTyping, selectedImageForEdit, dailyChallenge, lastAlert, local>>

NextMount ==
    \/ \E savedLicense \in LicenseKeys : mount(savedLicense)
    \/ Handlers

SpecMount == InitMount /\ [][NextMount]_vars

(***************************************************************************)
(* Vocabulary of the claims                                                *)
(***************************************************************************)
Last(q) == q[Len(q)]

\* text contains phrase, ignoring case
containsCI(text, phrase) == includes(toLowerCase(text), phrase)

hasGenerateTrigger(text) ==
    \E ph \in {SHOW_ME, BRING_ME, PIC_OF} : containsCI(text, ph)

hasEditTrigger(text) ==
    \E ph \in {ADD, REMOVE, CHANGE, EDIT, MAKE_IT} : containsCI(text, ph)

\* the phrases of the set that occur in text at index i, ignoring case
occurringAt(text, i, phrases) ==
    { ph \in phrases : matchesAt(toLowerCase(text), i, ph) }

\* text with every occurrence of a phrase of the set removed: reading left to
\* right, the longest phrase that occurs at an index is dropped
RECURSIVE withoutPhrasesFrom(_, _, _)
withoutPhrasesFrom(text, i, phrases) ==
    IF i > Len(text) THEN <<>>
    ELSE LET here == occurringAt(text, i, phrases)
         IN IF here = {}
            THEN <<text[i]>> \o withoutPhrasesFrom(text, i + 1, phrases)
            ELSE LET ph == CHOOSE x \in here : \A y \in here : Len(y) <= Len(x)
                 IN withoutPhrasesFrom(text, i + Len(ph), phrases)

withoutPhrases(text, phrases) == withoutPhrasesFrom(text, 1, phrases)

hasOuterSpace(text) == text # <<>> /\ (text[1] = " " \/ Last(text) = " ")

\* p is t without the spaces at its two ends
isTrimOf(p, t) ==
    /\ ~hasOuterSpace(p)
    /\ \E a \in 0..Len(t) : \E b \in a..Len(t) :
          /\ SubSeq(t, a + 1, b) = p
          /\ \A k \in (1..a) \cup ((b + 1)..Len(t)) : t[k] = " "

StatedPhrases == {SHOW_ME, BRING_ME, PIC_OF, A_PIC_OF}

\* a branch has been taken for the submitted text
Classified == local.branch # NONE

PhrasesOf(v) == IF v = "gated" THEN StatedPhrases \cup {AN_PIC_OF} ELSE StatedPhrases

C2_EditWinsOverGenerate ==
    (Classified /\ local.sel # NULL /\ hasEditTrigger(local.message)) =>
        /\ local.branch = "edit"
        /\ pc \in {"editCall", "editImage", "done"}
        /\ local.prompt # NULL => local.prompt = local.message
        /\ local.prompt = NULL => (matchDataUrl(local.sel) = NULL /\ local.exit = "failed")
        /\ pc = "editCall" => provider.input = editPromptText(variant, local.message)

C2_Witness ==
    /\ Classified
    /\ local.sel # NULL
    /\ hasEditTrigger(local.message)
    /\ hasGenerateTrigger(local.message)
    /\ local.branch = "edit"
    /\ local.prompt = local.message

(***************************************************************************)
(* C3: every accepted text whose user turn went through takes exactly one  *)
(* of the three branches; it is plain chat exactly when it has no generate *)
(* trigger and it is not the case that an image is under edit and the text *)
(* has an edit trigger; without an image under edit it is never an edit.   *)
(***************************************************************************)
C3_TotalExclusive ==
    /\ pc \in {"editCall", "editImage"} => local.branch = "edit"
    /\ pc \in {"generateCall", "generateImage"} => local.branch = "generate"
    /\ pc \in {"fetchHistory", "postChat"} => local.branch = "chat"
    /\ (pc \notin {"idle", "saveUser", "done"}) => Classified
    /\ Classified =>
          /\ local.branch \in {"chat", "generate", "edit"}
          /\ local.branch = "chat" <=>
                /\ ~hasGenerateTrigger(local.message)
                /\ ~(local.sel # NULL /\ hasEditTrigger(local.message))
          /\ local.sel = NULL => local.branch # "edit"

C3_Witness ==
    /\ Classified
    /\ local.sel = NULL
    /\ hasEditTrigger(local.message)
    /\ local.branch = "chat"
    /\ pc \in {"fetchHistory", "postChat"}

(***************************************************************************)
(* C4: the daily-challenge flag goes from not completed to completed at    *)
(* most once and never back; the step that completes it adds 50 to the     *)
(* stars, and no later "space pizza" image request adds anything.          *)
(***************************************************************************)
C4_ChallengeAwardedOnce ==
    [][ /\ dailyChallenge'.points = 50
        /\ dailyChallenge.completed =>
              (dailyChallenge'.completed /\ stars' = stars)
        /\ ~dailyChallenge.completed =>
              stars' = (IF dailyChallenge'.completed THEN stars + 50 ELSE stars) ]_vars

\* a text that asks for a pizza picture
isPizzaImageRequest(text) ==
    hasGenerateTrigger(text) /\ containsCI(text, SPACE_PIZZA)

C4_Witness ==
    /\ dailyChallenge.completed
    /\ stars = 50
    /\ \E i \in 1..Len(chat) : \E j \in (i + 1)..Len(chat) :
          /\ chat[i].role = "user" /\ isPizzaImageRequest(chat[i].content)
          /\ chat[j].role = "user" /\ isPizzaImageRequest(chat[j].content)

(***************************************************************************)
(* C5: the challenge is completed only by a text that takes the generate   *)
(* branch and contains "space pizza"; a text that takes the edit branch or *)
(* the chat branch never completes it.                                     *)
(***************************************************************************)
C5_OnlyGenerateCompletes ==
    [][ (~dailyChallenge.completed /\ dailyChallenge'.completed) =>
           /\ containsCI(local'.message, SPACE_PIZZA)
           /\ ~(local'.sel # NULL /\ hasEditTrigger(local'.message))
           /\ hasGenerateTrigger(local'.message) ]_vars

(***************************************************************************)
(* C6: a message handled with a missing or invalid license key persists no *)
(* model turn and is always answered with the fixed Forbidden reply.       *)
(* As stated:                                                              *)
(***************************************************************************)
isForbiddenReply(m) ==
    m.role = "model" /\ m.content \in {FORBIDDEN_ERROR, FORBIDDEN_DEFAULT}

\* sendMessage ends in this step
Ends == pc # "done" /\ pc' = "done"

isChatMutation(exch) ==
    \/ exch.method = "POST" /\ exch.path \in {"/api/chat", "/api/chat/save"}
    \/ exch.method = "DELETE" /\ exch.path = "/api/chat"

C7_NoMutationWithoutKey ==
    [][ (chat_history' # chat_history /\ isChatMutation(http')) =>
           licenseOk(http'.key) ]_vars

(***************************************************************************)
(* C8: a handled message that passed the gate has persisted its user turn  *)
(* with the original text when sendMessage ends, whatever the branch and   *)
(* the outcome of the provider call.                                       *)
(***************************************************************************)
gatePassed == variant = "gated" => licenseOk(licenseKey)

\* stated for the requests made with the provider key configured
C8_UserTurnPersisted ==
    (pc = "done" /\ local.exit \in {"ok", "failed"} /\ gatePassed /\ GEMINI_API_KEY) =>
        \E i \in 1..Len(chat_history) :
            /\ i >= Len(chat_history) - 1
            /\ chat_history[i] = turn("user", local.message)

(***************************************************************************)
(* C9: when a chat request succeeds, the provider's non-empty reply is the *)
(* content of one model turn persisted right after the request's user      *)
(* turn, and the reply handed back is that content.                        *)
(***************************************************************************)
hasText(t) == t # NULL /\ \E k \in 1..Len(t) : t[k] # " "

C9_ReplyPersisted ==
    (/\ pc = "done"
     /\ local.branch = "chat"
     /\ provider.op = "chat"
     /\ provider.outcome.kind = "response"
     /\ hasText(provider.outcome.text)) =>
        /\ Len(chat_history) >= 2
        /\ LET n == Len(chat_history)
               persisted == chat_history[n]
           IN /\ persisted.role = "model"
              /\ isTrimOf(persisted.content, provider.outcome.text)
              /\ chat_history[n - 1] = turn("user", local.message)
              /\ Last(chat) = textMessage("model", persisted.content)
              /\ variant = "ungated" =>
                    (http.status = 200 /\ http.body = persisted.content)

C9_Witness ==
    /\ pc = "done"
    /\ variant = "ungated"
    /\ local.branch = "chat"
    /\ provider.outcome.kind = "response"
    /\ Last(chat_history) = turn("model", <<"o","k">>)
    /\ http.body = <<"o","k">>

(***************************************************************************)
(* C10: when the provider fails or answers nothing during a chat request,  *)
(* the fallback reply is handed back (never a 500) and is the last model   *)
(* turn of the persisted history.                                          *)
(***************************************************************************)
C10_FallbackPersisted ==
    (/\ pc = "done"
     /\ local.branch = "chat"
     /\ provider.op = "chat"
     /\ provider.outcome.kind # "pending"
     /\ ~(provider.outcome.kind = "response" /\ hasText(provider.outcome.text))) =>
        /\ Last(chat) = textMessage("model", FALLBACK)
        /\ variant = "ungated" => (http.status = 200 /\ http.body = FALLBACK)
        /\ Len(chat_history) > 0
        /\ Last(chat_history) = turn("model", FALLBACK)

(***************************************************************************)
(* C11: an image request (generate or edit) whose provider call returns an *)
(* image adds exactly one gallery row of type "generated", with the        *)
(* stripped prompt for a generation and "Edit: " + the text for an edit;   *)
(* when the call fails or returns no image part no gallery row is added.   *)
(***************************************************************************)
\* the image call of the running request is answered in this step
ImageCallAnswered ==
    /\ provider.op \in {"generate", "edit"}
    /\ provider.outcome.kind = "pending"
    /\ provider'.outcome.kind # "pending"

\* the provider's answer carries an image
imageReturned(call) ==
    /\ call.op \in {"generate", "edit"}
    /\ call.outcome.kind = "response"
    /\ \E i \in 1..Len(call.outcome.parts) : call.outcome.parts[i].inlineData # NONE

C11_GalleryEntryPersisted ==
    [][ /\ (pc # "idle" /\ ~ImageCallAnswered) => gallery' = gallery
        /\ ImageCallAnswered =>
              IF imageReturned(provider')
              THEN /\ Len(gallery') = Len(gallery) + 1
                   /\ SubSeq(gallery', 1, Len(gallery)) = gallery
                   /\ Last(gallery').type = "generated"
                   /\ Last(gallery').prompt =
                         (IF provider.op = "edit" THEN <<"Edit: ">> \o local.message
                          ELSE local.prompt)
              ELSE gallery' = gallery ]_vars

(***************************************************************************)
(* C12: after a successful image generation or edit the persisted history  *)
(* ends with the request's user turn followed by one model turn holding    *)
(* the fixed confirmation text.                                            *)
(***************************************************************************)
C12_ConfirmationPersisted ==
    (pc = "done" /\ local.branch \in {"generate", "edit"} /\ imageReturned(provider)) =>
        /\ Len(chat_history) >= 2
        /\ Last(chat_history) =
              turn("model", IF local.branch = "edit" THEN editedThePic(variant)
                            ELSE hereIsThePic(variant, local.prompt))
        /\ chat_history[Len(chat_history) - 1] = turn("user", local.message)

(***************************************************************************)
(* C13: when an edit request ends, the image under edit is cleared if the  *)
(* provider returned the edited image, and is the image that was selected  *)
(* when the request was made if the edit failed.                           *)
(***************************************************************************)
C13_SelectionClearedOnSuccessOnly ==
    (pc = "done" /\ local.branch = "edit") =>
        IF imageReturned(provider)
        THEN selectedImageForEdit = NULL
        ELSE selectedImageForEdit = local.sel

(***************************************************************************)
(* C17: toggling a pending mission twice (to completed and back) leaves    *)
(* its stored status, every other mission, the chat history, the gallery   *)
(* and the star total as they were; and each toggle is the status update   *)
(* of that one mission together with its star change.                      *)
(***************************************************************************)
\* the stored row of mission id
storedRows(t, id) == SelectSeq(t, LAMBDA row : row.id = id)

\* this step is a toggle of the mission displayed at position k
IsToggleOf(k) ==
    /\ k \in 1..Len(tasksState)
    /\ tasksState' = patchRows(tasksState, tasksState[k].id,
                               newStatusOf(tasksState[k].status))
    /\ tasksState' # tasksState

C17_DoubleToggleRestores ==
    /\ [](\A k \in 1..Len(tasksState) :
            LET id == tasksState[k].id
                first == newStatusOf(tasksState[k].status)
                second == newStatusOf(first)
            IN (/\ tasksState[k].status = "pending"
                /\ \A i \in 1..Len(tasks) : tasks[i].id = id => tasks[i].status = "pending")
               => /\ first = "completed" /\ second = "pending"
                  /\ patchRows(patchRows(tasks, id, first), id, second) = tasks
                  /\ starsAfterToggle(starsAfterToggle(stars, first), second) = stars)
    /\ [][\A k \in 1..MaxTaskId : IsToggleOf(k) =>
             /\ tasks' = patchRows(tasks, tasksState[k].id, tasksState'[k].status)
             /\ stars' = starsAfterToggle(stars, tasksState'[k].status)
             /\ chat_history' = chat_history
             /\ gallery' = gallery ]_vars

C17_Witness ==
    /\ http.method = "PATCH"
    /\ Len(tasks) = Len(initialMissions)
    /\ Len(tasksState) = Len(tasks)
    /\ \A i \in 1..Len(tasks) :
          tasks[i].status = "pending" /\ tasksState[i].status = "pending"
    /\ stars = 0

(***************************************************************************)
(* C18: in every store state each mission's status is "pending" or         *)
(* "completed" and no two missions share an id.                            *)
(***************************************************************************)
C18_StatusAndIdsValid ==
    /\ \A i \in 1..Len(tasks) : tasks[i].status \in {"pending", "completed"}
    /\ \A i, j \in 1..Len(tasks) : tasks[i].id = tasks[j].id => i = j

(***************************************************************************)
(* C19: GET /api/tasks seeds the starter missions only on the first call   *)
(* against the empty table; once missions have existed and all are         *)
(* deleted, GET /api/tasks answers the empty list and inserts nothing.     *)
(***************************************************************************)
C19_SeedsOnlyOnce ==
    [][ (/\ http'.method = "GET" /\ http'.path = "/api/tasks"
         /\ sqlite_sequence.tasks > 0
         /\ tasks = <<>>)
        => (tasks' = <<>> /\ http'.body = <<>>) ]_vars

(***************************************************************************)
(* C14: an image uploaded with no type is returned by GET /api/gallery     *)
(* with the submitted url and type "uploaded", and stays in the table      *)
(* unchanged until the row is deleted.                                     *)
(***************************************************************************)
galleryIds(g) == {g[i].id : i \in 1..Len(g)}

C14_UploadRoundTrip ==
    /\ [](\A file \in Files :
            LET stored == uploadRows(gallery, sqlite_sequence, uploadBody(file, NULL, NONE))
                answer == getGalleryRows(stored)
            IN \E i \in 1..Len(answer) :
                  /\ answer[i].url = file
                  /\ answer[i].type = "uploaded"
                  /\ answer[i].id \notin galleryIds(gallery))
    /\ [][ /\ (http'.method = "GET" /\ http'.path = "/api/gallery") =>
                 /\ gallery' = gallery
                 /\ Len(http'.body) = Len(gallery)
                 /\ \A i \in 1..Len(gallery) :
                       \E j \in 1..Len(http'.body) : http'.body[j] = gallery[i]
           /\ (http'.method = "POST" /\ http'.path = "/api/gallery/upload") =>
                 \E file \in Files :
                    gallery' = uploadRows(gallery, sqlite_sequence,
                                          uploadBody(file, NULL, NONE))
           /\ \A i \in 1..Len(gallery) :
                 \/ \E j \in 1..Len(gallery') : gallery'[j] = gallery[i]
                 \/ /\ http'.method = "DELETE" /\ http'.path = "/api/gallery/:id"
                    /\ gallery[i].id \notin galleryIds(gallery') ]_vars

C14_Witness ==
    /\ http.method = "GET" /\ http.path = "/api/gallery"
    /\ Len(http.body) = 1
    /\ http.body[1].type = "uploaded"
    /\ http.body[1].url \in Files
    /\ http.body[1].id = 2

(***************************************************************************)
(* C15: the upload route stores the type and the prompt its body supplies: *)
(* an image saved from the chat with type "generated" and its prompt is    *)
(* stored as a "generated" row with that prompt.                           *)
(***************************************************************************)
C15_UploadHonoursTypeAndPrompt ==
    [][ \A i \in 1..Len(chat) :
           (Len(chat') = Len(chat) /\ ~chat[i].isSaved /\ chat'[i].isSaved) =>
              /\ Len(gallery') = Len(gallery) + 1
              /\ Last(gallery').url = chat[i].imageUrl
              /\ Last(gallery').type = "generated"
              /\ Last(gallery').prompt = chat[i].imagePrompt ]_vars

(***************************************************************************)
(* C16: GET /api/chat right after DELETE /api/chat answers exactly the     *)
(* welcome turn, which is then the only stored chat row.                   *)
(***************************************************************************)
C16_ClearThenGetSeedsWelcome ==
    [][ (/\ http.method = "DELETE" /\ http.path = "/api/chat" /\ http.status = 200
         /\ http'.method = "GET" /\ http'.path = "/api/chat")
        => /\ http'.status = 200
           /\ http'.body = <<turn("model", WELCOME)>>
           /\ chat_history' = <<turn("model", WELCOME)>> ]_vars

C16_Witness ==
    /\ chat = <<>>
    /\ http.method = "GET" /\ http.path = "/api/chat"
    /\ http.body = <<turn("model", WELCOME)>>
    /\ chat_history = <<turn("model", WELCOME)>>

(***************************************************************************)
(* C20: with no API key in the server's environment, /api/health reports   *)
(* ai_configured false, and POST /api/chat, /api/generate-image and        *)
(* /api/edit-image answer 500 "AI configuration error" with no provider    *)
(* call and nothing added to the chat history or the gallery.              *)
(***************************************************************************)
routeOf(at) ==
    CASE at = "postChat" -> "/api/chat"
      [] at = "generateImage" -> "/api/generate-image"
      [] at = "editImage" -> "/api/edit-image"

C20_NoKeyFailsWithoutSideEffects ==
    /\ [](~GEMINI_API_KEY => ~ai_configured)
    /\ [][ (/\ ~GEMINI_API_KEY
            /\ pc \in {"postChat", "generateImage", "editImage"}
            /\ pc' # pc)
           => /\ http'.path = routeOf(pc)
              /\ http'.status = 500
              /\ http'.body = AI_CONFIG_ERROR
              /\ provider' = provider
              /\ chat_history' = chat_history
              /\ gallery' = gallery ]_vars

C20_Witness ==
    /\ ~GEMINI_API_KEY
    /\ variant = "ungated"
    /\ pc = "done"
    /\ http.path = "/api/edit-image"
    /\ http.status = 500
    /\ http.body = AI_CONFIG_ERROR
    /\ provider = NoCall

(***************************************************************************)
(* Vocabulary of the claims on POST /api/chat under several callers        *)
(***************************************************************************)
\* the request of caller c reaches the provider in this step
Calls(c) == requests[c].at = "none" /\ requests'[c].at = "called"

\* the request of caller c arrives in this step
Arrives(c) == requests[c].at = "none" /\ requests'[c].at # "none"

isPrefix(a, b) == Len(a) <= Len(b) /\ SubSeq(b, 1, Len(a)) = a

(***************************************************************************)
(* C21: the contents handed to the provider for a chat request are all the *)
(* stored turns, oldest first, whatever their number.                      *)
(***************************************************************************)
C21_FullHistoryToProvider ==
    [][ \A c \in Callers :
           Calls(c) => requests'[c].contents = contentsOf(chat_history') ]_vars

C23_StoreFailureAnswered500 ==
    [][ \A c \in Callers :
           (requests'[c].threw # requests[c].threw) =>
              (requests'[c].at = "answered" /\ requests'[c].status = 500) ]_vars

(***************************************************************************)
(* C24: a request whose message is empty or blank stores no turn and       *)
(* reaches no provider call.                                               *)
(***************************************************************************)
C24_BlankMessageIsNoOp ==
    [][ \A c \in Callers :
           (Arrives(c) /\ trim(requests'[c].message) = <<>>) =>
              (chat_history' = chat_history /\ requests'[c].at # "called") ]_vars

(***************************************************************************)
(* C25: every step leaves the stored turns as they were, appends turns at  *)
(* the end, or (DELETE /api/chat) leaves none; no step changes or removes  *)
(* a single stored turn.                                                   *)
(***************************************************************************)
C25_AppendOnlyOrCleared ==
    [][ \/ isPrefix(chat_history, chat_history')
        \/ /\ chat_history' = <<>>
           /\ http'.method = "DELETE" /\ http'.path = "/api/chat" /\ http'.status = 200
      ]_vars

C25_Witness ==
    /\ pc = "done"
    /\ chat_history = <<turn("model", WELCOME), turn("user", local.message),
                        turn("model", local.reply)>>
    /\ local.reply # FALLBACK

(***************************************************************************)
(* C26: a stored model turn that is the reply to a request always has that *)
(* request's user turn stored before it, whatever requests, clears and     *)
(* restarts fall in between.                                               *)
(***************************************************************************)
C26_ReplyAfterItsUserTurn ==
    \A c \in Callers : \A j \in 1..Len(chat_history) :
        (/\ requests[c].at = "answered"
         /\ requests[c].status = 200
         /\ requests[c].threw = NONE
         /\ chat_history[j] = turn("model", requests[c].body)) =>
            \E i \in 1..(j - 1) : chat_history[i] = turn("user", requests[c].message)

(***************************************************************************)
(* C27: the contents handed to the provider for a chat request end with    *)
(* the user message of that request.                                       *)
(***************************************************************************)
C27_ContextEndsWithMessage ==
    [][ \A c \in Callers :
           Calls(c) =>
              /\ requests'[c].contents # <<>>
              /\ Last(requests'[c].contents) = turn("user", requests'[c].message) ]_vars

(***************************************************************************)
(* C28: an accepted sendMessage (isTyping true, aiStatus busy) always      *)
(* comes to isTyping false and aiStatus online, whichever way it ends, and *)
(* while isTyping is true no further user message is taken.                *)
(***************************************************************************)
C28_TypingAlwaysReset ==
    /\ (isTyping /\ aiStatus = "busy") ~> (~isTyping /\ aiStatus = "online")
    /\ [][ isTyping => ~(Len(chat') > Len(chat) /\ Last(chat').role = "user") ]_vars

C28_Witness ==
    /\ variant = "gated"
    /\ pc = "done"
    /\ local.exit = "forbidden"
    /\ http.status = 403
    /\ ~isTyping
    /\ aiStatus = "online"

Mounts == pc = "unmounted" /\ pc' = "idle"

\* the chat the client displays when it has fetched the history h
displayed(h) ==
    [i \in 1..Len(getChatRows(h)) |->
        textMessage(getChatRows(h)[i].role, getChatRows(h)[i].content)]

====
